---- MODULE Spec2Model ----
(***************************************************************************)
(* Model of intervalle's TimeSpec::parse_with_anchor (src/src/lib.rs).     *)
(*                                                                         *)
(* The input text is a sequence of one-character strings; a parser is an   *)
(* operator from (input, offset) to a result record that carries what the  *)
(* winnow combinators of the source carry: success or failure, the         *)
(* backtrack/cut mode of a failure, the offset the input cursor is left    *)
(* at, the context pushed on the way out, and the external cause.          *)
(* Calendar values are records; the day shifts go through Julian day       *)
(* numbers and the library's representable range, as the time crate does.  *)
(***************************************************************************)
EXTENDS Integers, Sequences, FiniteSets, TLC

VARIABLES
    timespec,    \* the text handed to parse_with_anchor
    anchor,      \* the anchor instant handed to parse_with_anchor
    largeDates,  \* build configuration: the time crate's large-dates feature
    pc,          \* "ready", "returned" or "panicked"
    out          \* what the call produced

vars == <<timespec, anchor, largeDates, pc, out>>

----------------------------------------------------------------------------
(* Characters and digit strings *)

DigitChars == <<"0", "1", "2", "3", "4", "5", "6", "7", "8", "9">>

IsDigit(c) == \E i \in 1..10 : DigitChars[i] = c

DigitVal(c) == (CHOOSE i \in 1..10 : DigitChars[i] = c) - 1

\* char at 0-based offset p, "" past the end
At(s, p) == IF p + 1 \in 1..Len(s) THEN s[p + 1] ELSE ""

\* s[p .. p+n) as a sequence (shorter when the input ends first)
Slice(s, p, n) == SubSeq(s, p + 1, IF p + n <= Len(s) THEN p + n ELSE Len(s))

\* length of the maximal run of ASCII digits starting at offset p
RECURSIVE DigitRun(_, _)
DigitRun(s, p) == IF IsDigit(At(s, p)) THEN 1 + DigitRun(s, p + 1) ELSE 0

\* decimal value of the n digits starting at offset p
RECURSIVE ParseNum(_, _, _)
ParseNum(s, p, n) ==
    IF n = 0 THEN 0
    ELSE ParseNum(s, p, n - 1) * 10 + DigitVal(At(s, p + n - 1))

U16_MAX == 65535
U8_MAX == 255

----------------------------------------------------------------------------
(* Parser results (winnow PResult with ErrMode<ContextError>) *)

Label(l) == [kind |-> "Label", v |-> l]
Expected(c) == [kind |-> "Expected", v |-> c]

\* alt is bookkeeping of the model: the index of the dispatcher's alternative
\* whose result this is (0 outside the dispatcher)
POk(pos, val) ==
    [ok |-> TRUE, cut |-> FALSE, pos |-> pos, val |-> val, ctx |-> <<>>,
     cause |-> "none", alt |-> 0]

\* ErrMode::Backtrack of a fresh ContextError, the cursor left at pos
PBacktrack(pos, cause) ==
    [ok |-> FALSE, cut |-> FALSE, pos |-> pos, val |-> <<>>, ctx |-> <<>>,
     cause |-> cause, alt |-> 0]

\* Parser::context: push a context entry on an error on its way out
Context(r, c) == IF r.ok THEN r ELSE [r EXCEPT !.ctx = Append(@, c)]

\* cut_err: a Backtrack error becomes a Cut error
cut_err(r) == IF r.ok THEN r ELSE [r EXCEPT !.cut = TRUE]

\* literal(t): match the exact text t; the cursor does not move on failure
literal(t, s, p) ==
    IF Slice(s, p, Len(t)) = t THEN POk(p + Len(t), t) ELSE PBacktrack(p, "none")

\* evaluate v once and hand its value to F
Bind(v, F(_)) == CHOOSE r \in { F(x) : x \in {v} } : TRUE

\* digits!(len, dest): digit1, verify the run length, parse into dest
digits(len, destMax, s, p) ==
    Bind(DigitRun(s, p), LAMBDA n :
        Context(IF n = 0 THEN PBacktrack(p, "none")           \* digit1 fails
                ELSE IF n # len THEN PBacktrack(p, "none")    \* verify resets, fails
                ELSE Bind(ParseNum(s, p, n), LAMBDA v :
                        IF v > destMax THEN PBacktrack(p, "ParseIntError")  \* try_map
                        ELSE POk(p + n, v)),
                Label("digit count")))

----------------------------------------------------------------------------
(* Calendar (time crate) *)

MIN_YEAR == IF largeDates THEN -999999 ELSE -9999
MAX_YEAR == IF largeDates THEN 999999 ELSE 9999

is_leap_year(y) == y % 4 = 0 /\ (y % 25 # 0 \/ y % 16 = 0)

days_in_month(y, m) ==
    IF m \in {4, 6, 9, 11} THEN 30
    ELSE IF m = 2 THEN (IF is_leap_year(y) THEN 29 ELSE 28)
    ELSE 31

Date(y, m, d) == [year |-> y, month |-> m, day |-> d]
Time(h, mi, s) == [hour |-> h, minute |-> mi, second |-> s]
MIDNIGHT == Time(0, 0, 0)
DateTime(d, t) == [date |-> d, time |-> t]
midnight(d) == DateTime(d, MIDNIGHT)
replace_time(dt, t) == DateTime(dt.date, t)

\* Month::try_from(month) and Date::from_calendar_date(year, month, day)
from_calendar_date_ok(y, m, d) ==
    /\ m \in 1..12
    /\ y >= MIN_YEAR /\ y <= MAX_YEAR
    /\ d >= 1 /\ d <= days_in_month(y, m)

\* Time::from_hms(hour, minute, second)
from_hms_ok(h, mi, s) == h < 24 /\ mi < 60 /\ s < 60

RECURSIVE DaysBefore(_, _)
DaysBefore(y, m) == IF m <= 1 THEN 0 ELSE DaysBefore(y, m - 1) + days_in_month(y, m - 1)

ordinal(d) == DaysBefore(d.year, d.month) + d.day

\* Date::to_julian_day
to_julian_day(d) ==
    LET y == d.year - 1
    IN  ordinal(d) + 365 * y + (y \div 4) - (y \div 100) + (y \div 400) + 1721425

\* Date::from_julian_day: the civil date of a Julian day number
from_julian_day(jd) ==
    LET z   == jd - 1721120               \* days since 0000-03-01
        era == z \div 146097
        doe == z - era * 146097
        yoe == (doe - (doe \div 1460) + (doe \div 36524) - (doe \div 146096)) \div 365
        doy == doe - (365 * yoe + (yoe \div 4) - (yoe \div 100))
        mp  == (5 * doy + 2) \div 153
        d   == doy - ((153 * mp + 2) \div 5) + 1
        m   == IF mp < 10 THEN mp + 3 ELSE mp - 9
        y   == yoe + era * 400 + (IF m <= 2 THEN 1 ELSE 0)
    IN  Date(y, m, d)

MIN_DATE == Date(MIN_YEAR, 1, 1)
MAX_DATE == Date(MAX_YEAR, 12, 31)

None == [some |-> FALSE, v |-> midnight(Date(0, 0, 0))]
Some(v) == [some |-> TRUE, v |-> v]

\* PrimitiveDateTime::checked_add of a whole number of days to a midnight
checked_add_days(dt, n) ==
    Bind(to_julian_day(dt.date) + n, LAMBDA jd :
        IF jd < to_julian_day(MIN_DATE) \/ jd > to_julian_day(MAX_DATE) THEN None
        ELSE Some(DateTime(from_julian_day(jd), dt.time)))

\* yesterday(anchor) and tomorrow(anchor), before the expect
yesterday(a) == checked_add_days(midnight(a.date), -1)
tomorrow(a) == checked_add_days(midnight(a.date), 1)

----------------------------------------------------------------------------
(* Field builders: the date! and time! macros *)

\* cut_err("-") with its two contexts
dateDelimiter(s, p) ==
    Bind(literal(<<"-">>, s, p), LAMBDA l :
        Context(Context(cut_err(l), Label("date delimiter")), Expected("-")))

\* preceded(cut_err("-")..., digits!(2, u8))
dateField(s, p) ==
    Bind(dateDelimiter(s, p), LAMBDA dash :
        IF ~dash.ok THEN dash ELSE digits(2, U8_MAX, s, dash.pos))

\* the tuple (year, month, day) of date!: sequential, no reset on failure
dateTuple(s, p) ==
    Bind(digits(4, U16_MAX, s, p), LAMBDA y :
        IF ~y.ok THEN y
        ELSE Bind(dateField(s, y.pos), LAMBDA m :
            IF ~m.ok THEN m
            ELSE Bind(dateField(s, m.pos), LAMBDA d :
                IF ~d.ok THEN d
                ELSE POk(d.pos, Date(y.val, m.val, d.val)))))

\* try_map(from_calendar_date) of date!: a failure resets the cursor to p
dateTryMap(t, p) ==
    IF ~t.ok THEN t
    ELSE IF from_calendar_date_ok(t.val.year, t.val.month, t.val.day)
         THEN POk(t.pos, midnight(t.val))
         ELSE PBacktrack(p, "ComponentRange")

\* date!(): the tuple, try_map, map(midnight), context("date format")
date(s, p) ==
    Bind(dateTuple(s, p), LAMBDA t :
        Context(dateTryMap(t, p), Label("date format")))

\* cut_err(":") with its two contexts
timeDelimiter(s, p) ==
    Bind(literal(<<":">>, s, p), LAMBDA l :
        Context(Context(cut_err(l), Label("time delimiter")), Expected(":")))

\* preceded(cut_err(":")..., cut_err(digits!(2, u8)))
timeMinute(s, p) ==
    Bind(timeDelimiter(s, p), LAMBDA colon :
        IF ~colon.ok THEN colon
        ELSE Bind(digits(2, U8_MAX, s, colon.pos), LAMBDA mi : cut_err(mi)))

\* literal(":") with its two contexts
secondDelimiter(s, p) ==
    Bind(literal(<<":">>, s, p), LAMBDA l :
        Context(Context(l, Label("time delimiter")), Expected(":")))

\* preceded(literal(":")..., cut_err(digits!(2, u8)))
secondField(s, p) ==
    Bind(secondDelimiter(s, p), LAMBDA colon :
        IF ~colon.ok THEN colon
        ELSE Bind(digits(2, U8_MAX, s, colon.pos), LAMBDA se : cut_err(se)))

\* opt(...): a Backtrack error resets the cursor and yields None
timeSecond(s, p) ==
    Bind(secondField(s, p), LAMBDA r :
        IF r.ok THEN POk(r.pos, <<r.val>>)
        ELSE IF r.cut THEN r
        ELSE POk(p, <<>>))

\* the tuple (hour, minute, second?) of time!
timeTuple(s, p) ==
    Bind(digits(2, U8_MAX, s, p), LAMBDA h :
        IF ~h.ok THEN h
        ELSE Bind(timeMinute(s, h.pos), LAMBDA mi :
            IF ~mi.ok THEN mi
            ELSE Bind(timeSecond(s, mi.pos), LAMBDA se :
                IF ~se.ok THEN se
                ELSE POk(se.pos, [hour |-> h.val, minute |-> mi.val,
                                  second |-> se.val]))))

\* sec.unwrap_or(0)
unwrap_or(o, dflt) == IF o = <<>> THEN dflt ELSE o[1]

\* try_map(Time::from_hms(hour, min, sec.unwrap_or(0))): a failure resets the cursor
timeTryMap(t, p) ==
    IF ~t.ok THEN t
    ELSE IF from_hms_ok(t.val.hour, t.val.minute, unwrap_or(t.val.second, 0))
         THEN POk(t.pos, Time(t.val.hour, t.val.minute, unwrap_or(t.val.second, 0)))
         ELSE PBacktrack(p, "ComponentRange")

\* time!()
time(s, p) == Bind(timeTuple(s, p), LAMBDA t : timeTryMap(t, p))

----------------------------------------------------------------------------
(* Grammar dispatcher *)

\* literal(" ").context(Expected(' '))
separator(s, p) == Bind(literal(<<" ">>, s, p), LAMBDA l : Context(l, Expected(" ")))

\* cut_err(time!()).context(Label("time"))
cutTime(s, p) == Bind(time(s, p), LAMBDA t : Context(cut_err(t), Label("time")))

\* separated_pair(date!(), " ", cut_err(time!())), map(replace_time)
separated_pair(s, p) ==
    Bind(date(s, p), LAMBDA d :
        IF ~d.ok THEN d
        ELSE Bind(separator(s, d.pos), LAMBDA sp :
            IF ~sp.ok THEN sp
            ELSE Bind(cutTime(s, sp.pos), LAMBDA t :
                IF ~t.ok THEN t
                ELSE POk(t.pos, replace_time(d.val, t.val)))))

\* the date+time alternative, with context("time_and_date")
date_time(s, p) ==
    Bind(separated_pair(s, p), LAMBDA r : Context(r, Label("time_and_date")))

\* literal(word).value(v)
keyword(word, v, s, p) ==
    Bind(literal(word, s, p), LAMBDA r : IF r.ok THEN POk(r.pos, v) ELSE r)

\* time!().map(|ptime| anchor.replace_time(ptime))
anchored_time(a, s, p) ==
    Bind(time(s, p), LAMBDA r : IF r.ok THEN POk(r.pos, replace_time(a, r.val)) ELSE r)

\* alt over the results of the alternatives, each run from the same start:
\* the first success or Cut error wins; when all backtrack, ContextError::or
\* keeps the last alternative's error
RECURSIVE altFrom(_, _)
altFrom(rs, i) ==
    IF rs[i].ok \/ rs[i].cut \/ i = Len(rs) THEN [rs[i] EXCEPT !.alt = i]
    ELSE altFrom(rs, i + 1)

\* the six alternatives in source order
alternatives(a, yday, tmrw, s, p) ==
    << keyword(<<"t", "o", "d", "a", "y">>, midnight(a.date), s, p),
       keyword(<<"y", "e", "s", "t", "e", "r", "d", "a", "y">>, yday, s, p),
       keyword(<<"t", "o", "m", "o", "r", "r", "o", "w">>, tmrw, s, p),
       date_time(s, p),
       date(s, p),
       anchored_time(a, s, p) >>

alt(a, yday, tmrw, s, p) ==
    Bind(alternatives(a, yday, tmrw, s, p), LAMBDA rs : altFrom(rs, 1))

\* opt(alt(("+", "-")))
modifier(s, p) ==
    IF At(s, p) = "+" THEN POk(p + 1, <<"+">>)
    ELSE IF At(s, p) = "-" THEN POk(p + 1, <<"-">>)
    ELSE POk(p, <<>>)

\* variantOf with the arms of '+' and '-' exchanged
variantOfSwapped(m) ==
    IF m = <<"+">> THEN "Before" ELSE IF m = <<"-">> THEN "After" ELSE "Point"

\* the match on the modifier: After, Before or Point
variantOf(m) ==
    IF m = <<"+">> THEN "After" ELSE IF m = <<"-">> THEN "Before" ELSE "Point"

\* (modifier, alt(...)).context("timespec").map(...)
timespecParser(a, yday, tmrw, s) ==
    Bind(modifier(s, 0), LAMBDA m :
        Bind(alt(a, yday, tmrw, s, m.pos), LAMBDA d :
            Context(IF ~d.ok THEN d
                    ELSE [POk(d.pos, [variant |-> variantOf(m.val), dtime |-> d.val])
                            EXCEPT !.alt = d.alt],
                    Label("timespec"))))

\* Parser::parse: the parser, then eof; the error's offset is the cursor's
parseComplete(a, yday, tmrw, s) ==
    Bind(timespecParser(a, yday, tmrw, s), LAMBDA r :
        IF ~r.ok THEN r
        ELSE IF r.pos < Len(s) THEN PBacktrack(r.pos, "none")   \* eof
        ELSE r)

----------------------------------------------------------------------------
(* Results and errors *)

NoDateTime == midnight(Date(0, 0, 0))
NoInfo == [label |-> "", expected |-> <<>>, cause |-> "none"]

\* Display of ContextError: the first Label, every Expected, the cause
firstLabel(ctx) ==
    LET ls == SelectSeq(ctx, LAMBDA c : c.kind = "Label")
    IN  IF ls = <<>> THEN "" ELSE ls[1].v

expectedOf(ctx) ==
    LET es == SelectSeq(ctx, LAMBDA c : c.kind = "Expected")
    IN  [i \in 1..Len(es) |-> es[i].v]

\* impl From<ParseError> for IntervalleError: the description, the input and
\* the offset; cut and alt are bookkeeping of the model (the error's ErrMode
\* and the alternative it came from), not fields of the error
IntervalleErrorFrom(r, s) ==
    [kind |-> "Err", variant |-> "", dtime |-> NoDateTime,
     info |-> [label |-> firstLabel(r.ctx), expected |-> expectedOf(r.ctx),
               cause |-> r.cause],
     input |-> s, offset |-> r.pos, cut |-> r.cut, alt |-> r.alt]

OkResult(v) ==
    [kind |-> "Ok", variant |-> v.variant, dtime |-> v.dtime,
     info |-> NoInfo, input |-> <<>>, offset |-> 0, cut |-> FALSE, alt |-> 0]

Panicked ==
    [kind |-> "Panic", variant |-> "", dtime |-> NoDateTime,
     info |-> NoInfo, input |-> <<>>, offset |-> 0, cut |-> FALSE, alt |-> 0]

NotCalled ==
    [kind |-> "None", variant |-> "", dtime |-> NoDateTime,
     info |-> NoInfo, input |-> <<>>, offset |-> 0, cut |-> FALSE, alt |-> 0]

\* the Result returned once the parser has been built
parseResult(r, s) ==
    IF r.ok THEN [OkResult(r.val) EXCEPT !.alt = r.alt] ELSE IntervalleErrorFrom(r, s)

\* TimeSpec::parse_with_anchor: the keyword values are computed while the
\* parser is built, so a failed expect aborts the call whatever the text is
parse_with_anchor(s, a) ==
    Bind(yesterday(a), LAMBDA yday :
        Bind(tomorrow(a), LAMBDA tmrw :
            IF ~yday.some \/ ~tmrw.some THEN Panicked
            ELSE Bind(parseComplete(a, yday.v, tmrw.v, s), LAMBDA r :
                    parseResult(r, s))))

----------------------------------------------------------------------------
(* The texts and anchors the calls are made with *)

MaxMonthField == 13
MaxDayField == 32
MaxHourField == 24
MaxMinuteField == 60

\* n as exactly w decimal digits (n < 10^w)
RECURSIVE Fmt(_, _)
Fmt(n, w) == IF w = 0 THEN <<>> ELSE Append(Fmt(n \div 10, w - 1), DigitChars[(n % 10) + 1])

FmtDate(y, m, d) == Fmt(y, 4) \o <<"-">> \o Fmt(m, 2) \o <<"-">> \o Fmt(d, 2)
FmtHM(h, mi) == Fmt(h, 2) \o <<":">> \o Fmt(mi, 2)
FmtHMS(h, mi, s) == FmtHM(h, mi) \o <<":">> \o Fmt(s, 2)

Keywords ==
    { <<"t", "o", "d", "a", "y">>,
      <<"y", "e", "s", "t", "e", "r", "d", "a", "y">>,
      <<"t", "o", "m", "o", "r", "r", "o", "w">> }

YearFields == {1900, 2000, 2023, 2024}
MonthFields == 0..MaxMonthField
DayFields == {0, 1} \cup (28..MaxDayField)
HourFields == {0, 15} \cup (23..MaxHourField)
MinuteFields == {0, 28} \cup (59..MaxMinuteField)

DateTexts ==
    { FmtDate(y, m, d) : y \in YearFields, m \in MonthFields, d \in DayFields }
    \cup { FmtDate(0, 1, 1), FmtDate(0, 2, 29), FmtDate(0, 12, 31),
           FmtDate(9999, 1, 1), FmtDate(9999, 12, 31), FmtDate(2024, 8, 8) }

TimeTexts ==
    { FmtHM(h, mi) : h \in HourFields, mi \in MinuteFields }
    \cup { FmtHMS(h, mi, s) : h \in HourFields, mi \in MinuteFields, s \in MinuteFields }

DateTimeTexts ==
    { d \o <<" ">> \o t :
        d \in { FmtDate(2024, 8, 8), FmtDate(2024, 2, 29), FmtDate(2023, 2, 29),
                FmtDate(2024, 13, 1), FmtDate(9999, 12, 31) },
        t \in { FmtHM(14, 10), FmtHMS(14, 10, 11), FmtHMS(23, 59, 59), FmtHM(24, 0),
                FmtHM(0, 60), FmtHMS(0, 0, 60), FmtHMS(0, 0, 0) } }

Bodies == Keywords \cup DateTexts \cup TimeTexts \cup DateTimeTexts

\* texts obtained from a well-formed one by one edit
EditChars == {"7", "x", " ", ":", "-", "+"}
Delete(s, i) == SubSeq(s, 1, i - 1) \o SubSeq(s, i + 1, Len(s))
Replace(s, i, c) == [s EXCEPT ![i] = c]
Insert(s, i, c) == SubSeq(s, 1, i) \o <<c>> \o SubSeq(s, i + 1, Len(s))
Edits(s) ==
    { Delete(s, i) : i \in 1..Len(s) }
    \cup { Replace(s, i, c) : i \in 1..Len(s), c \in EditChars }
    \cup { Insert(s, i, c) : i \in 0..Len(s), c \in EditChars }

EditBases ==
    { <<"t", "o", "d", "a", "y">>,
      <<"-">> \o <<"y", "e", "s", "t", "e", "r", "d", "a", "y">>,
      <<"+">> \o <<"t", "o", "m", "o", "r", "r", "o", "w">>,
      <<"t", "o", "m", "o", "r", "r", "o", "w", "t", "o", "d", "a", "y">>,
      FmtDate(2024, 8, 8),
      <<"-">> \o FmtHM(15, 28),
      FmtHMS(15, 28, 0) \o <<"Z">>,
      <<"+">> \o FmtDate(2024, 8, 8) \o <<" ">> \o FmtHMS(14, 10, 11),
      FmtDate(2024, 13, 1) }

Inputs ==
    Bodies
    \cup { <<"+">> \o b : b \in Bodies }
    \cup { <<"-">> \o b : b \in Bodies }
    \cup UNION { Edits(b) : b \in EditBases }
    \cup EditBases \cup { <<>> }

AnchorDates ==
    { Date(-999999, 1, 1), Date(-9999, 1, 1), Date(0, 1, 1), Date(1900, 2, 28),
      Date(2023, 2, 28), Date(2023, 11, 11), Date(2023, 12, 31), Date(2024, 1, 1),
      Date(2024, 2, 28), Date(2024, 2, 29), Date(2024, 3, 1),
      Date(9999, 12, 31), Date(999999, 12, 31) }

Anchors ==
    { DateTime(d, Time(12, 20, 45)) : d \in AnchorDates }
    \cup { DateTime(d, t) : d \in { Date(2023, 11, 11), Date(2024, 2, 29) },
                            t \in { MIDNIGHT, Time(23, 59, 59) } }

\* a PrimitiveDateTime a caller can construct in this build
IsDateTime(a) ==
    /\ from_calendar_date_ok(a.date.year, a.date.month, a.date.day)
    /\ from_hms_ok(a.time.hour, a.time.minute, a.time.second)

----------------------------------------------------------------------------
(* The state machine: one call of parse_with_anchor *)

Init ==
    /\ largeDates \in BOOLEAN
    /\ timespec \in Inputs
    /\ anchor \in { a \in Anchors : IsDateTime(a) }
    /\ pc = "ready"
    /\ out = NotCalled

ParseWithAnchor ==
    /\ pc = "ready"
    /\ out' = parse_with_anchor(timespec, anchor)
    /\ pc' = IF out'.kind = "Panic" THEN "panicked" ELSE "returned"
    /\ UNCHANGED <<timespec, anchor, largeDates>>

Next == ParseWithAnchor

Spec == Init /\ [][Next]_vars

----------------------------------------------------------------------------
(* The grammar and the calendar as the specification words them, written   *)
(* without the parser's operators: the properties below compare the two.   *)

TODAY == <<"t", "o", "d", "a", "y">>
YESTERDAY == <<"y", "e", "s", "t", "e", "r", "d", "a", "y">>
TOMORROW == <<"t", "o", "m", "o", "r", "r", "o", "w">>

DigitOf ==
    [c \in {"0", "1", "2", "3", "4", "5", "6", "7", "8", "9"} |->
        CASE c = "0" -> 0 [] c = "1" -> 1 [] c = "2" -> 2 [] c = "3" -> 3
          [] c = "4" -> 4 [] c = "5" -> 5 [] c = "6" -> 6 [] c = "7" -> 7
          [] c = "8" -> 8 [] c = "9" -> 9]

AreDigits(b, i, j) == \A k \in i..j : b[k] \in DOMAIN DigitOf
N2(b, i) == 10 * DigitOf[b[i]] + DigitOf[b[i + 1]]
N4(b, i) == 100 * N2(b, i) + N2(b, i + 2)

HasModifier(s) == Len(s) > 0 /\ s[1] \in {"+", "-"}
BodyOf(s) == IF HasModifier(s) THEN Tail(s) ELSE s
ModifierLen(s) == IF HasModifier(s) THEN 1 ELSE 0

IsDateShape(b) ==
    /\ Len(b) = 10
    /\ AreDigits(b, 1, 4) /\ b[5] = "-" /\ AreDigits(b, 6, 7)
    /\ b[8] = "-" /\ AreDigits(b, 9, 10)

IsTimeShape(b) ==
    /\ Len(b) \in {5, 8}
    /\ AreDigits(b, 1, 2) /\ b[3] = ":" /\ AreDigits(b, 4, 5)
    /\ (Len(b) = 8 => b[6] = ":" /\ AreDigits(b, 7, 8))

IsDateTimeShape(b) ==
    /\ Len(b) \in {16, 19}
    /\ IsDateShape(SubSeq(b, 1, 10))
    /\ b[11] = " "
    /\ IsTimeShape(SubSeq(b, 12, Len(b)))

DateOfText(b) == Date(N4(b, 1), N2(b, 6), N2(b, 9))
TimeOfText(b) == Time(N2(b, 1), N2(b, 4), IF Len(b) = 8 THEN N2(b, 7) ELSE 0)

GregorianLeap(y) == y % 4 = 0 /\ (y % 100 # 0 \/ y % 400 = 0)
GregorianDays(y, m) ==
    CASE m \in {1, 3, 5, 7, 8, 10, 12} -> 31
      [] m \in {4, 6, 9, 11} -> 30
      [] m = 2 -> IF GregorianLeap(y) THEN 29 ELSE 28

RealDate(d) == d.month \in 1..12 /\ d.day >= 1 /\ d.day <= GregorianDays(d.year, d.month)
ValidClock(t) == t.hour <= 23 /\ t.minute <= 59 /\ t.second <= 59

NextDay(d) ==
    IF d.day < GregorianDays(d.year, d.month) THEN Date(d.year, d.month, d.day + 1)
    ELSE IF d.month < 12 THEN Date(d.year, d.month + 1, 1)
    ELSE Date(d.year + 1, 1, 1)

PrevDay(d) ==
    IF d.day > 1 THEN Date(d.year, d.month, d.day - 1)
    ELSE IF d.month > 1 THEN Date(d.year, d.month - 1, GregorianDays(d.year, d.month - 1))
    ELSE Date(d.year - 1, 12, 31)

ValidDateText(b) == IsDateShape(b) /\ RealDate(DateOfText(b))
ValidTimeText(b) == IsTimeShape(b) /\ ValidClock(TimeOfText(b))
ValidDateTimeText(b) ==
    /\ IsDateTimeShape(b)
    /\ RealDate(DateOfText(SubSeq(b, 1, 10)))
    /\ ValidClock(TimeOfText(SubSeq(b, 12, Len(b))))

\* the texts of section 6 of the specification
InGrammar(s) ==
    LET b == BodyOf(s)
    IN  \/ b \in {TODAY, YESTERDAY, TOMORROW}
        \/ ValidDateText(b)
        \/ ValidTimeText(b)
        \/ ValidDateTimeText(b)

\* a proper prefix of s is a text of the grammar, so characters would remain
HasTrailing(s) ==
    /\ ~InGrammar(s)
    /\ \E k \in 1..(Len(s) - 1) : InGrammar(SubSeq(s, 1, k))

Called == pc # "ready"
Returned == pc = "returned"
Yields(variant, dtime) == out.kind = "Ok" /\ out.variant = variant /\ out.dtime = dtime

\* exactly two digits start at position i of b (1-based), no third follows
TwoDigitsAt(b, i) ==
    /\ Len(b) >= i + 1
    /\ AreDigits(b, i, i + 1)
    /\ (Len(b) >= i + 2 => b[i + 2] \notin DOMAIN DigitOf)

\* the '-' after a 4-digit year has matched
DateCommitted(b) == Len(b) >= 5 /\ AreDigits(b, 1, 4) /\ b[5] = "-"

\* ... and the date field then fails: digit count, second '-', calendar range
DateFieldFails(b) ==
    /\ DateCommitted(b)
    /\ ~(/\ TwoDigitsAt(b, 6)
         /\ Len(b) >= 8 /\ b[8] = "-"
         /\ TwoDigitsAt(b, 9)
         /\ RealDate(DateOfText(SubSeq(b, 1, 10))))

\* the ':' after a 2-digit hour has matched
TimeCommitted(b) == Len(b) >= 3 /\ AreDigits(b, 1, 2) /\ b[3] = ":"

\* ... and the time field then fails: digit count, clock range
TimeFieldFails(b) ==
    /\ TimeCommitted(b)
    /\ ~(/\ TwoDigitsAt(b, 4)
         /\ (Len(b) >= 6 /\ b[6] = ":" => TwoDigitsAt(b, 7))
         /\ ValidClock(Time(N2(b, 1), N2(b, 4),
                            IF Len(b) >= 6 /\ b[6] = ":" THEN N2(b, 7) ELSE 0)))

----------------------------------------------------------------------------
(* Properties of the calls that return *)

\* a returning call accepts exactly the texts of the grammar
ReturnedAcceptsGrammar == Returned => (out.kind = "Ok" <=> InGrammar(timespec))

\* a returning call resolves the keywords against the anchor's date
ReturnedKeywords ==
    Returned =>
        /\ timespec = TODAY => Yields("Point", midnight(anchor.date))
        /\ timespec = YESTERDAY => Yields("Point", midnight(PrevDay(anchor.date)))
        /\ timespec = TOMORROW => Yields("Point", midnight(NextDay(anchor.date)))

\* a returning call gives a valid bare time the anchor's date
ReturnedBareTime ==
    Returned /\ IsTimeShape(timespec) =>
        IF ValidClock(TimeOfText(timespec))
        THEN Yields("Point", DateTime(anchor.date, TimeOfText(timespec)))
        ELSE out.kind = "Err"

\* a returning call gives a real date midnight, and rejects any other
ReturnedDate ==
    Returned /\ IsDateShape(timespec) =>
        IF RealDate(DateOfText(timespec))
        THEN Yields("Point", midnight(DateOfText(timespec)))
        ELSE out.kind = "Err"

\* a returning call takes date, space, time through the date+time production
ReturnedDateTime ==
    Returned /\ ValidDateTimeText(timespec) =>
        Yields("Point", DateTime(DateOfText(SubSeq(timespec, 1, 10)),
                                 TimeOfText(SubSeq(timespec, 12, Len(timespec)))))

\* a returning call rejects a text with characters left over
ReturnedTrailing == Returned /\ HasTrailing(timespec) => out.kind = "Err"

\* a missing '-' after the year, a wrong digit count of the minute or the
\* second are hard failures, reported where they happen
ReturnedCutPoints ==
    Returned /\ out.kind = "Err" /\ out.cut => out.offset > ModifierLen(timespec)

\* a failure of the time field is never handed to a sibling alternative
ReturnedTimeFieldFailure ==
    Returned /\ TimeFieldFails(BodyOf(timespec)) => out.kind = "Err" /\ out.alt = 6

\* a failure of the date field is handed on unless it is a missing '-'
ReturnedDateFieldFailure ==
    Returned /\ DateFieldFails(BodyOf(timespec)) =>
        /\ out.kind = "Err"
        /\ out.alt = 4 <=> out.cut
        /\ out.cut => out.info.label = "date delimiter"
        /\ ~out.cut => out.alt = 6 /\ out.offset = ModifierLen(timespec)

----------------------------------------------------------------------------
(* The claims *)

\* C1: for a text B without modifier that is accepted with anchor A as
\* Point(i), "+"B is accepted as After(i) and "-"B as Before(i) with the
\* same anchor, whichever production matched B; a text without a leading
\* '+' or '-' never yields After or Before.
C1_ModifierOrthogonal ==
    Returned /\ out.kind = "Ok" /\ ~HasModifier(timespec) =>
        /\ out.variant = "Point"
        /\ Bind(parse_with_anchor(<<"+">> \o timespec, anchor), LAMBDA plus :
                plus.kind = "Ok" /\ plus.variant = "After" /\ plus.dtime = out.dtime)
        /\ Bind(parse_with_anchor(<<"-">> \o timespec, anchor), LAMBDA minus :
                minus.kind = "Ok" /\ minus.variant = "Before" /\ minus.dtime = out.dtime)

\* C1 witness: a date+time text was accepted as a Point and the same text
\* behind '-' is accepted as Before
C1_Witness ==
    /\ Returned /\ out.kind = "Ok" /\ out.variant = "Point"
    /\ IsDateTimeShape(timespec)
    /\ parse_with_anchor(<<"-">> \o timespec, anchor).variant = "Before"

\* C2: for every anchor, "today" yields Point(anchor's date at midnight),
\* "yesterday" and "tomorrow" the calendar day before and after, at midnight
\* (the result depends on the anchor's date alone).
C2_KeywordsForEveryAnchor ==
    Called =>
        /\ timespec = TODAY => Yields("Point", midnight(anchor.date))
        /\ timespec = YESTERDAY => Yields("Point", midnight(PrevDay(anchor.date)))
        /\ timespec = TOMORROW => Yields("Point", midnight(NextDay(anchor.date)))

\* C3: for every HH:MM or HH:MM:SS text and every anchor, the call succeeds
\* iff hour <= 23, minute <= 59 and second <= 59, and then yields Point of
\* the anchor's date at that time (second 0 when omitted).
C3_BareTimeForEveryAnchor ==
    Called /\ IsTimeShape(timespec) =>
        /\ out.kind = "Ok" <=> ValidClock(TimeOfText(timespec))
        /\ out.kind = "Ok" => Yields("Point", DateTime(anchor.date, TimeOfText(timespec)))

\* C4: for every YYYY-MM-DD text and every anchor, the call succeeds iff the
\* triple is a real calendar date, then yields Point of it at midnight, and
\* otherwise returns a ParseFailure.
C4_DateForEveryAnchor ==
    Called /\ IsDateShape(timespec) =>
        IF RealDate(DateOfText(timespec))
        THEN Yields("Point", midnight(DateOfText(timespec)))
        ELSE out.kind = "Err"

\* C5: for every valid date D and valid time T, the text D, space, T yields
\* Point(D at T), the same for every anchor.
C5_DateTimeForEveryAnchor ==
    Called /\ ValidDateTimeText(timespec) =>
        Yields("Point", DateTime(DateOfText(SubSeq(timespec, 1, 10)),
                                 TimeOfText(SubSeq(timespec, 12, Len(timespec)))))

\* C6: parse_with_anchor never panics on malformed input: for every text
\* outside the grammar and every anchor a caller can supply, the call
\* returns a ParseFailure.
C6_MalformedNeverPanics ==
    Called /\ ~InGrammar(timespec) => out.kind = "Err"

\* C7: a TimeSpec is returned only when the whole text was consumed; a text
\* of which a proper prefix matches and characters remain returns a
\* ParseFailure.
C7_TrailingInputFails ==
    /\ out.kind = "Ok" => InGrammar(timespec)
    /\ Called /\ HasTrailing(timespec) => out.kind = "Err"

\* C8: for every anchor dated from 0000-01-01 to 9999-12-31, yesterday and
\* tomorrow both produce a date (the expect never fires).
C8_DayShiftsInFourDigitYears ==
    anchor.date.year >= 0 /\ anchor.date.year <= 9999 =>
        yesterday(anchor).some /\ tomorrow(anchor).some

\* C9: the failure's offset points at the first deviating character with a
\* description of the deviation: a well-formed date text whose month is not
\* in 1..12 fails at the month field (5 past the modifier) with a
\* calendar-range error, not a digit-count error.
C9_MonthRangeAtMonthField ==
    Returned /\ IsDateShape(BodyOf(timespec))
             /\ DateOfText(BodyOf(timespec)).month \notin 1..12 =>
        /\ out.kind = "Err"
        /\ out.offset = ModifierLen(timespec) + 5
        /\ out.info.cause = "ComponentRange"
        /\ out.info.label # "digit count"

\* C10: once the '-' after the year or the ':' after the hour has matched,
\* every later failure inside that field ends the parse there: the failure
\* returned is that of the first alternative that reached the field (date+time
\* for a date, time-only for a bare time), no sibling alternative is attempted.
C10_CommitIsHard ==
    /\ Returned /\ DateFieldFails(BodyOf(timespec)) =>
            out.kind = "Err" /\ out.alt = 4
    /\ Returned /\ TimeFieldFails(BodyOf(timespec)) =>
            out.kind = "Err" /\ out.alt = 6

====
